---- MODULE Spec2Model ----
(***************************************************************************)
(* Work Order OCR: a model of the reply decoder (ocr_utils.py), of the     *)
(* upload page (app.py) and of the View Data page (pages/View_Data.py).    *)
(*                                                                         *)
(* Texts are TLA+ strings, handled with Len, SubSeq and \o exactly as the  *)
(* Python code slices them.  A TLA+ string literal cannot hold the         *)
(* character U+0060 (the markdown fence character), so Tick stands for it; *)
(* the fence markers keep their lengths (7 and 3).                         *)
(***************************************************************************)
EXTENDS Integers, Sequences, FiniteSets, TLC

----------------------------------------------------------------------------
(* State                                                                   *)

\* ocr_utils.py: one call of extract_work_order_data
VARIABLES
  reply_object,      \* the JSON object the model means to reply with
  response,          \* what model.generate_content returned: [style, raised, text]
  decoded            \* what extract_work_order_data returned: [done, val]

decodeVars == <<reply_object, response, decoded>>

\* the session
VARIABLES
  current_page,      \* the page of the app on screen: "upload" or "view"
  supabase_client,   \* get_supabase_client() yields a client (truthy)
  store_calls        \* the store operations attempted so far, by name

\* app.py
VARIABLES
  file_type,         \* st.radio("Select File Type")
  uploaded_files,    \* st.file_uploader(...): the files now in the widget
  session_state,     \* st.session_state['extracted_data'], <<>> while unset
  pass,              \* what the last script run's Process Files pass did
  display,           \* what the Display Results section rendered
  save_result        \* what the Save to Database handler reported

appVars == <<file_type, uploaded_files, session_state, pass, display, save_result>>

\* pages/View_Data.py

VARIABLES
  store_rows,        \* the rows in the store; row i is signed by both iff i is odd
  page,              \* st.session_state.page, 0 while unset
  last_filter_state, \* st.session_state.last_filter_state, <<>> while unset
  page_size,         \* st.selectbox("Rows per page")
  sig_both,          \* st.selectbox("Signed by Both?")
  ascending,         \* "Ascending" in sort_order
  view,              \* what the last script run fetched and rendered
  download           \* what the Download Filtered Data handler did

viewVars == <<store_rows, page, last_filter_state, page_size, sig_both, ascending,
              view, download>>
vars == <<current_page, supabase_client, store_calls, decodeVars, appVars, viewVars>>

----------------------------------------------------------------------------
(* Python values.  JSON null decodes to None; one record shape per type.   *)

None == [t |-> "None"]
PyBool(b) == [t |-> "bool", b |-> b]
PyInt(n) == [t |-> "int", n |-> n]
PyStr(s) == [t |-> "str", s |-> s]
PyList(a) == [t |-> "list", a |-> a]
\* a dict keeps its keys in insertion order: a sequence of <<key, value>>
PyDict(o) == [t |-> "dict", o |-> o]

\* bool(v) as `if data:` evaluates it
Truthy(v) ==
  CASE v.t = "None" -> FALSE
    [] v.t = "bool" -> v.b
    [] v.t = "int" -> v.n # 0
    [] v.t = "str" -> v.s # ""
    [] v.t = "list" -> v.a # <<>>
    [] v.t = "dict" -> v.o # <<>>

DictKeys(o) == [i \in 1..Len(o) |-> o[i][1]]
DictHas(o, k) == \E i \in 1..Len(o) : o[i][1] = k
DictGet(o, k) == o[CHOOSE i \in 1..Len(o) : o[i][1] = k][2]
\* d[k] = v : an existing key keeps its place, a new key goes last
DictSet(o, k, v) ==
  IF DictHas(o, k)
  THEN [i \in 1..Len(o) |-> IF o[i][1] = k THEN <<k, v>> ELSE o[i]]
  ELSE Append(o, <<k, v>>)

----------------------------------------------------------------------------
(* str methods used by extract_work_order_data                             *)

Tick == "~"
FenceJson == Tick \o Tick \o Tick \o "json"
Fence == Tick \o Tick \o Tick

Char(s, i) == SubSeq(s, i, i)
IsSpace(c) == c \in {" ", "\n", "\t", "\r"}

RECURSIVE lstrip(_)
lstrip(s) ==
  IF Len(s) > 0 /\ IsSpace(Char(s, 1)) THEN lstrip(SubSeq(s, 2, Len(s))) ELSE s

RECURSIVE rstrip(_)
rstrip(s) ==
  IF Len(s) > 0 /\ IsSpace(Char(s, Len(s)))
  THEN rstrip(SubSeq(s, 1, Len(s) - 1)) ELSE s

strip(s) == rstrip(lstrip(s))
startswith(s, p) == Len(s) >= Len(p) /\ SubSeq(s, 1, Len(p)) = p
endswith(s, p) == Len(s) >= Len(p) /\ SubSeq(s, Len(s) - Len(p) + 1, Len(s)) = p

----------------------------------------------------------------------------
(* json.loads, for the JSON the model's replies are drawn from: objects,   *)
(* arrays, strings without escapes, non-negative integers, true, false and *)
(* null, with JSON whitespace between tokens.                              *)

Fail == [ok |-> FALSE, val |-> None, pos |-> 0]
Ok(v, p) == [ok |-> TRUE, val |-> v, pos |-> p]

Digits == <<"0", "1", "2", "3", "4", "5", "6", "7", "8", "9">>
IsDigit(c) == \E d \in 1..10 : Digits[d] = c
DigitVal(c) == (CHOOSE d \in 1..10 : Digits[d] = c) - 1

RECURSIVE SkipWs(_, _)
SkipWs(s, i) ==
  IF i <= Len(s) /\ IsSpace(Char(s, i)) THEN SkipWs(s, i + 1) ELSE i

\* the literal w at position i
Lit(s, i, w) == i + Len(w) - 1 <= Len(s) /\ SubSeq(s, i, i + Len(w) - 1) = w

RECURSIVE ParseDigits(_, _, _)
ParseDigits(s, i, acc) ==
  IF i <= Len(s) /\ IsDigit(Char(s, i))
  THEN ParseDigits(s, i + 1, 10 * acc + DigitVal(Char(s, i)))
  ELSE Ok(PyInt(acc), i)

ParseNumber(s, i) ==
  IF Char(s, i) = "0" THEN Ok(PyInt(0), i + 1) ELSE ParseDigits(s, i, 0)

\* s[i] is the opening quote; the string ends at the next quote
RECURSIVE ParseString(_, _, _)
ParseString(s, i, j) ==
  IF j > Len(s) THEN Fail
  ELSE IF Char(s, j) = "\"" THEN Ok(PyStr(SubSeq(s, i + 1, j - 1)), j + 1)
  ELSE IF Char(s, j) \in {"\\", "\n", "\t", "\r"} THEN Fail
  ELSE ParseString(s, i, j + 1)

RECURSIVE ParseValue(_, _)
RECURSIVE ParseElements(_, _, _)
RECURSIVE ParseMembers(_, _, _)

\* after "[" or ",": one value, then "," or "]"
ParseElements(s, i, acc) ==
  LET r == ParseValue(s, SkipWs(s, i)) IN
  IF ~r.ok THEN Fail
  ELSE LET j == SkipWs(s, r.pos)
           a == Append(acc, r.val) IN
       IF j > Len(s) THEN Fail
       ELSE IF Char(s, j) = "," THEN ParseElements(s, j + 1, a)
       ELSE IF Char(s, j) = "]" THEN Ok(PyList(a), j + 1)
       ELSE Fail

\* after "{" or ",": "key" : value, then "," or "}"
ParseMembers(s, i, acc) ==
  LET j == SkipWs(s, i) IN
  IF j > Len(s) \/ Char(s, j) # "\"" THEN Fail
  ELSE LET k == ParseString(s, j, j + 1) IN
       IF ~k.ok THEN Fail
       ELSE LET c == SkipWs(s, k.pos) IN
            IF c > Len(s) \/ Char(s, c) # ":" THEN Fail
            ELSE LET r == ParseValue(s, SkipWs(s, c + 1)) IN
                 IF ~r.ok THEN Fail
                 ELSE LET e == SkipWs(s, r.pos)
                          o == DictSet(acc, k.val.s, r.val) IN
                      IF e > Len(s) THEN Fail
                      ELSE IF Char(s, e) = "," THEN ParseMembers(s, e + 1, o)
                      ELSE IF Char(s, e) = "}" THEN Ok(PyDict(o), e + 1)
                      ELSE Fail

ParseValue(s, i) ==
  IF i > Len(s) THEN Fail
  ELSE IF Char(s, i) = "{" THEN
    LET j == SkipWs(s, i + 1) IN
    IF j <= Len(s) /\ Char(s, j) = "}" THEN Ok(PyDict(<<>>), j + 1)
    ELSE ParseMembers(s, i + 1, <<>>)
  ELSE IF Char(s, i) = "[" THEN
    LET j == SkipWs(s, i + 1) IN
    IF j <= Len(s) /\ Char(s, j) = "]" THEN Ok(PyList(<<>>), j + 1)
    ELSE ParseElements(s, i + 1, <<>>)
  ELSE IF Char(s, i) = "\"" THEN ParseString(s, i, i + 1)
  ELSE IF IsDigit(Char(s, i)) THEN ParseNumber(s, i)
  ELSE IF Lit(s, i, "null") THEN Ok(None, i + 4)
  ELSE IF Lit(s, i, "true") THEN Ok(PyBool(TRUE), i + 4)
  ELSE IF Lit(s, i, "false") THEN Ok(PyBool(FALSE), i + 5)
  ELSE Fail

\* json.loads(text): [ok, val]; ok = FALSE is json.JSONDecodeError
json_loads(text) ==
  LET r == ParseValue(text, SkipWs(text, 1)) IN
  IF r.ok /\ SkipWs(text, r.pos) = Len(text) + 1
  THEN [ok |-> TRUE, val |-> r.val]
  ELSE [ok |-> FALSE, val |-> None]

\* ocr_utils.py lines 43-47: strip, then drop an opening json fence marker
\* and a closing fence marker
clean_text(raw) ==
  LET t0 == strip(raw)
      t1 == IF startswith(t0, FenceJson) THEN SubSeq(t0, 8, Len(t0)) ELSE t0
  IN IF endswith(t1, Fence) THEN SubSeq(t1, 1, Len(t1) - 3) ELSE t1

\* extract_work_order_data: resp is what model.generate_content gave,
\* [raised, text]; any exception (the call's, response.text's, json's)
\* is caught and None is returned
extract_work_order_data(resp) ==
  IF resp.raised THEN None
  ELSE LET r == json_loads(clean_text(resp.text)) IN
       IF r.ok THEN r.val ELSE None

----------------------------------------------------------------------------
(* The model's replies: the text of a JSON value, as the model writes it.  *)

RECURSIVE JsonText(_)
RECURSIVE JoinTexts(_, _)
JoinTexts(parts, i) ==
  IF i > Len(parts) THEN ""
  ELSE (IF i > 1 THEN "," ELSE "") \o parts[i] \o JoinTexts(parts, i + 1)
JsonText(v) ==
  CASE v.t = "None" -> "null"
    [] v.t = "bool" -> IF v.b THEN "true" ELSE "false"
    [] v.t = "int" -> ToString(v.n)
    [] v.t = "str" -> "\"" \o v.s \o "\""
    [] v.t = "list" -> "[" \o JoinTexts([i \in 1..Len(v.a) |-> JsonText(v.a[i])], 1) \o "]"
    [] v.t = "dict" ->
         "{" \o JoinTexts([i \in 1..Len(v.o) |->
                  "\"" \o v.o[i][1] \o "\":" \o JsonText(v.o[i][2])], 1) \o "}"

\* the wrapping styles of a reply
Wrap(style, text) ==
  CASE style = "plain" -> text
    [] style = "json" -> FenceJson \o "\n" \o text \o "\n" \o Fence
    [] style = "bare" -> Fence \o "\n" \o text \o "\n" \o Fence

----------------------------------------------------------------------------
(* One call of extract_work_order_data(image), over the replies the model  *)
(* can give for a JSON object.                                             *)

\* the most members of the object replied
MaxMembers == 2

ReplyKeys == {"work_order_number", "hours", "notes"}
ReplyValues == <<None, PyBool(TRUE), PyInt(8), PyStr("WO-1")>>
Styles == {"plain", "json", "bare"}

\* the objects of at most MaxMembers members, with distinct keys
ReplyObjects ==
  UNION {{PyDict([i \in 1..n |-> <<ks[i], ReplyValues[vs[i]]>>]) :
            ks \in {k \in [1..n -> ReplyKeys] :
                      \A i \in 1..n, j \in 1..n : i # j => k[i] # k[j]},
            vs \in [1..n -> 1..Len(ReplyValues)]} : n \in 0..MaxMembers}

NoResponse == [style |-> "none", raised |-> FALSE, text |-> ""]
NotDecoded == [done |-> FALSE, val |-> None]

\* line 39: the call raises, or the model replies in one of the styles
GenerateContent ==
  /\ response.style = "none"
  /\ \/ \E st \in Styles :
          response' = [style |-> st, raised |-> FALSE,
                       text |-> Wrap(st, JsonText(reply_object))]
     \/ response' = [style |-> "raised", raised |-> TRUE, text |-> ""]
  /\ UNCHANGED <<reply_object, decoded, current_page, supabase_client, store_calls, appVars, viewVars>>

\* lines 41-52
Decode ==
  /\ response.style # "none"
  /\ ~decoded.done
  /\ decoded' = [done |-> TRUE, val |-> extract_work_order_data(response)]
  /\ UNCHANGED <<reply_object, response, current_page, supabase_client, store_calls, appVars, viewVars>>

----------------------------------------------------------------------------
(* The upload page, app.py.                                                *)

\* the nine fields the prompt asks for (ocr_utils.py lines 26-34)
SchemaKeys ==
  <<"work_order_number", "job_number", "description", "date", "hours",
    "total_amount_due", "signed_by_both", "customer_sign", "wcdp_sign">>

\* a reply that follows the prompt
FullRecord ==
  PyDict(<< <<"work_order_number", PyStr("WO-1")>>, <<"job_number", PyStr("J-7")>>,
            <<"description", PyStr("Repair")>>, <<"date", PyStr("01-02-2024")>>,
            <<"hours", PyInt(8)>>, <<"total_amount_due", PyStr("120.50")>>,
            <<"signed_by_both", PyBool(TRUE)>>, <<"customer_sign", PyBool(TRUE)>>,
            <<"wcdp_sign", PyBool(TRUE)>> >>)
\* a reply that leaves fields out and adds one of its own
PartialRecord ==
  PyDict(<< <<"notes", PyStr("torn")>>, <<"work_order_number", PyStr("WO-2")>>,
            <<"hours", None>> >>)

\* the images a file or page can hold, each by the reply the model gives
\* for it: [raised, text]
Images ==
  << [raised |-> FALSE, text |-> Wrap("json", JsonText(FullRecord))],
     [raised |-> FALSE, text |-> Wrap("json", JsonText(PartialRecord))],
     [raised |-> FALSE, text |-> Wrap("bare", JsonText(FullRecord))],
     [raised |-> FALSE, text |-> JsonText(PyList(<<PyInt(1)>>))] >>

\* extract_work_order_data(image), per image
Extracted == [k \in 1..Len(Images) |-> extract_work_order_data(Images[k])]

\* a page of a PDF: an image k of Images, or 0: a page that cannot be
\* rasterized (load_page / get_pixmap / Image.open raises)
Pages == 0..Len(Images)

PageLabel(name, k) == name \o " - Page " \o ToString(k)

NoPass == [ran |-> FALSE, extracted_data |-> <<>>, messages |-> <<>>, attempts |-> <<>>]

\* the pass as it runs: `raised` tells that the try block at hand has raised
Message(acc, level, name) ==
  [acc EXCEPT !.messages = Append(@, [level |-> level, name |-> name])]
Attempt(acc, label) == [acc EXCEPT !.attempts = Append(@, label), !.raised = FALSE]

\* data['filename'] = label; extracted_data.append(data)   (lines 61-62, 82-83)
\* raised: data is no dict, and the item assignment raises TypeError
Stamp(acc, data, label) ==
  IF data.t = "dict"
  THEN [acc EXCEPT !.extracted_data = Append(@, DictSet(data.o, "filename", PyStr(label)))]
  ELSE [acc EXCEPT !.raised = TRUE]

\* lines 60-66, with data what extract_work_order_data returned
ImageExtracted(acc, name, data) ==
  IF Truthy(data)
  THEN IF data.t = "dict" THEN Stamp(acc, data, name)
       ELSE Message(acc, "error", name)
  ELSE Message(acc, "warning", name)

\* lines 57-66: one image file
ProcessImage(acc, f) ==
  IF ~f.opens THEN Message(acc, "error", f.name)
  ELSE ImageExtracted(Attempt(acc, f.name), f.name, Extracted[f.pages[1]])

RECURSIVE ProcessPages(_, _, _)
\* lines 81-83, then the rest of the loop
PageExtracted(acc, f, k, data) ==
  IF Truthy(data)
  THEN IF data.t = "dict" THEN ProcessPages(Stamp(acc, data, PageLabel(f.name, k)), f, k + 1)
       ELSE Stamp(acc, data, PageLabel(f.name, k))
  ELSE ProcessPages(acc, f, k + 1)

\* lines 73-83: the pages of one PDF from page k on; an exception leaves the loop
ProcessPages(acc, f, k) ==
  IF k > Len(f.pages) THEN acc
  ELSE IF f.pages[k] = 0 THEN [acc EXCEPT !.raised = TRUE]
  ELSE PageExtracted(Attempt(acc, PageLabel(f.name, k)), f, k, Extracted[f.pages[k]])

\* lines 84-85
PdfExcept(acc, name) == IF acc.raised THEN Message(acc, "error", name) ELSE acc

\* lines 69-85: one PDF file
ProcessPdf(acc, f) ==
  PdfExcept(IF f.opens THEN ProcessPages([acc EXCEPT !.raised = FALSE], f, 1)
            ELSE [acc EXCEPT !.raised = TRUE], f.name)

\* lines 53-85: the loop over uploaded_files from file i on
RECURSIVE ProcessFrom(_, _, _, _)
ProcessFrom(acc, type, files, i) ==
  IF i > Len(files) THEN acc
  ELSE ProcessFrom(IF type = "Images" THEN ProcessImage(acc, files[i])
                   ELSE ProcessPdf(acc, files[i]), type, files, i + 1)

\* lines 48-87
PassOf(r) == [k \in DOMAIN NoPass |-> r[k]]
ProcessFiles(type, files) ==
  PassOf(ProcessFrom([ran |-> TRUE, extracted_data |-> <<>>, messages |-> <<>>,
                      attempts |-> <<>>, raised |-> FALSE], type, files, 1))

\* pd.DataFrame(list of dicts).columns: the keys in order of first appearance
RECURSIVE AddKeys(_, _, _)
AddKeys(cols, keys, i) ==
  IF i > Len(keys) THEN cols
  ELSE AddKeys(IF \E j \in 1..Len(cols) : cols[j] = keys[i] THEN cols
               ELSE Append(cols, keys[i]), keys, i + 1)
RECURSIVE df_columns(_, _, _)
df_columns(cols, records, i) ==
  IF i > Len(records) THEN cols
  ELSE df_columns(AddKeys(cols, DictKeys(records[i]), 1), records, i + 1)

In(c, cols) == \E j \in 1..Len(cols) : cols[j] = c

\* line 101
preferred_order ==
  <<"work_order_number", "job_number", "date", "hours", "total_amount_due",
    "signed_by_both", "customer_sign", "wcdp_sign", "description", "filename">>

\* a selection that keeps the recognized columns only
columns_recognized_only(dfcols) ==
  SelectSeq(preferred_order, LAMBDA c : In(c, dfcols))

\* line 102
columns(dfcols) ==
  SelectSeq(preferred_order, LAMBDA c : In(c, dfcols))
    \o SelectSeq(dfcols, LAMBDA c : ~In(c, preferred_order))

NoDisplay == [shown |-> FALSE, raised |-> FALSE, df_columns |-> <<>>, columns |-> <<>>]

\* lines 94-155: the Display Results section of a script run.  The table
\* (data_editor) and the Excel export have the columns of df[columns];
\* df['hours'] (line 108) and df['signed_by_both'] (line 109) raise KeyError
\* when no record has the key, and nothing below them is rendered.
Display(records) ==
  IF records = <<>> THEN NoDisplay
  ELSE LET dfcols == df_columns(<<>>, records, 1)
           cols == columns(dfcols) IN
       IF In("hours", cols) /\ In("signed_by_both", cols)
       THEN [shown |-> TRUE, raised |-> FALSE, df_columns |-> dfcols, columns |-> cols]
       ELSE [shown |-> FALSE, raised |-> TRUE, df_columns |-> dfcols, columns |-> <<>>]

\* a Save handler that does not look at the client
SaveHandler_unguarded(client, ok) ==
  [calls |-> {"insert_work_orders"},
   store |-> IF ok THEN "ok" ELSE "error",
   shown |-> IF ok THEN "success" ELSE "error"]

\* lines 131-142: the Save to Database handler; ok: insert_work_orders
\* returned no {"error": ...}
\* store: what the store reported; shown: what the operator is shown
SaveHandler(client, ok) ==
  IF client
  THEN [calls |-> {"insert_work_orders"},
        store |-> IF ok THEN "ok" ELSE "error",
        shown |-> IF ok THEN "success" ELSE "error"]
  ELSE [calls |-> {}, store |-> "none", shown |-> "not_configured"]

----------------------------------------------------------------------------
(* The operator's actions on the upload page; each is one script run.      *)

\* the most inputs (images, PDF pages, unreadable files) in one upload
MaxInputs == 2

RECURSIVE Inputs(_, _)
Inputs(files, i) ==
  IF i > Len(files) THEN 0
  ELSE (IF Len(files[i].pages) = 0 THEN 1 ELSE Len(files[i].pages))
       + Inputs(files, i + 1)

FileName(i, type) ==
  "wo" \o ToString(i) \o (IF type = "PDF" THEN ".pdf" ELSE ".png")

\* the files the operator can add when `room` inputs are left
Uploadable(name, type, room, kinds) ==
  {[name |-> name, opens |-> FALSE, pages |-> <<>>]}
  \cup {[name |-> name, opens |-> TRUE, pages |-> p] :
          p \in IF type = "Images" THEN {<<k>> : k \in kinds \ {0}}
                ELSE UNION {[1..n -> kinds] : n \in 1..room}}

NoSave == [store |-> "none", shown |-> "none"]

\* what no action of the upload page touches
appFrame == <<current_page, supabase_client, decodeVars, viewVars>>

\* a script run in which no button is pressed: nothing of a Process Files
\* pass or of a save is on the page, and the Display Results section
\* renders the same session_state again
Rerun ==
  /\ current_page = "upload"
  /\ pass' = NoPass
  /\ save_result' = NoSave
  /\ UNCHANGED <<session_state, display, store_calls, appFrame>>

\* line 38: the radio; the other uploader starts empty
SelectFileType ==
  /\ file_type' = IF file_type = "PDF" THEN "Images" ELSE "PDF"
  /\ uploaded_files' = <<>>
  /\ Rerun

\* lines 41-44: a file is added to the uploader, its pages among `kinds`
UploadFrom(kinds) ==
  /\ Inputs(uploaded_files, 1) < MaxInputs
  /\ \E f \in Uploadable(FileName(Len(uploaded_files) + 1, file_type), file_type,
                          MaxInputs - Inputs(uploaded_files, 1), kinds) :
       uploaded_files' = Append(uploaded_files, f)
  /\ UNCHANGED file_type
  /\ Rerun

UploadFile == UploadFrom(Pages)

\* the last file is removed from the uploader
RemoveFile ==
  /\ uploaded_files # <<>>
  /\ uploaded_files' = SubSeq(uploaded_files, 1, Len(uploaded_files) - 1)
  /\ UNCHANGED file_type
  /\ Rerun

\* lines 46-91, then the Display Results section (of the rerun of line 91,
\* or of this run when nothing was extracted)
ProcessFilesPressed ==
  /\ current_page = "upload"
  /\ uploaded_files # <<>>
  /\ pass' = ProcessFiles(file_type, uploaded_files)
  /\ session_state' = IF pass'.extracted_data # <<>> THEN pass'.extracted_data
                      ELSE session_state
  /\ display' = Display(session_state')
  /\ save_result' = NoSave
  /\ UNCHANGED <<file_type, uploaded_files, store_calls, appFrame>>

\* lines 130-142
SaveToDatabasePressed ==
  /\ current_page = "upload"
  /\ display.shown
  /\ \E ok \in BOOLEAN :
       LET h == SaveHandler(supabase_client, ok) IN
       /\ save_result' = [store |-> h.store, shown |-> h.shown]
       /\ store_calls' = store_calls \cup h.calls
  /\ pass' = NoPass
  /\ UNCHANGED <<file_type, uploaded_files, session_state, display, appFrame>>

----------------------------------------------------------------------------
(* The View Data page, pages/View_Data.py.  db_utils.py is not part of the *)
(* sources at hand: what its functions return is taken from the           *)
(* specification of the Record Store Gateway and the Query Builder.        *)

\* line 26
PageSizes == {10, 20, 50, 100}

\* the rows matching the signed_by_both filter (Query Builder: equality)
MatchCount(rows, sb) ==
  CASE sb = "All" -> rows
    [] sb = "Yes" -> (rows + 1) \div 2
    [] sb = "No" -> rows \div 2

\* fetch_work_orders(page, page_size, ...) when it succeeds: the rows of
\* the window [(page-1)*page_size, page*page_size) and the count before
\* pagination; a window beyond the last row is empty
fetch_work_orders(count, pg, size) ==
  LET first == (pg - 1) * size
      left == count - first IN
  [data |-> IF left <= 0 THEN 0 ELSE IF left < size THEN left ELSE size,
   count |-> count]

\* a page count that rounds down and adds one
total_pages_floor_plus_one(total_count, size) ==
  IF total_count # 0 THEN total_count \div size + 1 ELSE 1

\* line 168
total_pages(total_count, size) ==
  IF total_count # 0 THEN (total_count + size - 1) \div size ELSE 1

\* lines 193-216: what the Download handler shows for what
\* fetch_all_work_orders returned: "rows" (a list of n rows), or an error
\* reported as {"error": message} ("error_dict", as the gateway reports
\* errors) or as an empty list ("error_empty").  Only `if all_data:` looks
\* at it: a truthy value goes to pd.DataFrame, which raises ValueError for
\* {"error": message}; a falsy one gives the "No data found" warning.
DownloadHandler(outcome, n) ==
  CASE outcome = "rows" -> [store |-> "ok", shown |-> IF n > 0 THEN "export" ELSE "no_data"]
    [] outcome = "error_dict" -> [store |-> "error", shown |-> "exception"]
    [] outcome = "error_empty" -> [store |-> "error", shown |-> "no_data"]

NoView == [state |-> "closed", fetch |-> "none", page |-> 0, rows |-> 0,
           total_count |-> 0, total_pages |-> 0]
NoDownload == [store |-> "none", shown |-> "none"]

\* lines 15-17: the page's guard
ViewGuard(client) == client

\* One run of the script, lines 15-216.  sess: [page, last_filter_state];
\* w: the widgets [page_size, sig_both, ascending]; button: the button
\* pressed, if any; fetch_ok, dl: what the store answers.  Gives the new
\* session values, what was rendered, the store operations attempted and
\* whether st.rerun() was called.
RunOnce(client, rows, sess, w, button, fetch_ok, dl) ==
  IF ~ViewGuard(client)
  THEN [page |-> sess.page, last_filter_state |-> sess.last_filter_state,
        view |-> [NoView EXCEPT !.state = "stopped"], download |-> NoDownload,
        calls |-> {}, rerun |-> FALSE]
  ELSE
    LET p0 == IF sess.page = 0 THEN 1 ELSE sess.page                \* 85-86
        current_filter_state == <<w.sig_both, w.ascending>>         \* 89
        l0 == IF sess.last_filter_state = <<>> THEN current_filter_state
              ELSE sess.last_filter_state                           \* 91-92
        p1 == IF current_filter_state # l0 THEN 1 ELSE p0           \* 94-95
        count == MatchCount(rows, w.sig_both)
        result == fetch_work_orders(count, p1, w.page_size)         \* 100-107
        tp == total_pages(result.count, w.page_size)                \* 168
        base == [page |-> p1, last_filter_state |-> current_filter_state,
                 download |-> NoDownload, rerun |-> FALSE,
                 calls |-> {"fetch_distinct_hours", "fetch_work_orders"},
                 view |-> [state |-> "ok", fetch |-> "ok", page |-> p1,
                           rows |-> result.data, total_count |-> result.count,
                           total_pages |-> tp]]
    IN
    IF ~fetch_ok                                                    \* 109-110
    THEN [base EXCEPT !.view = [state |-> "error", fetch |-> "error", page |-> p1,
                                rows |-> 0, total_count |-> 0, total_pages |-> 0]]
    ELSE IF button = "Previous" /\ p1 > 1                           \* 174-177
    THEN [base EXCEPT !.page = p1 - 1, !.rerun = TRUE]
    ELSE IF button = "Next" /\ p1 < tp                              \* 183-186
    THEN [base EXCEPT !.page = p1 + 1, !.rerun = TRUE]
    ELSE IF button = "Download"                                     \* 193-216
    THEN [base EXCEPT !.download = DownloadHandler(dl, count),
                      !.calls = @ \cup {"fetch_all_work_orders"}]
    ELSE base

\* a script run and, after st.rerun(), the run that follows it
ScriptRun(w, button, fetch_ok, dl, refetch_ok) ==
  current_page = "view" /\
  LET r1 == RunOnce(supabase_client, store_rows,
                    [page |-> page, last_filter_state |-> last_filter_state],
                    w, button, fetch_ok, dl)
      r2 == IF r1.rerun
            THEN RunOnce(supabase_client, store_rows,
                         [page |-> r1.page, last_filter_state |-> r1.last_filter_state],
                         w, "none", refetch_ok, dl)
            ELSE r1 IN
  /\ page' = r2.page
  /\ last_filter_state' = r2.last_filter_state
  /\ view' = r2.view
  /\ download' = r2.download
  /\ store_calls' = store_calls \cup r1.calls \cup r2.calls
  /\ page_size' = w.page_size
  /\ sig_both' = w.sig_both
  /\ ascending' = w.ascending
  /\ UNCHANGED <<store_rows, current_page, supabase_client, decodeVars, appVars>>

Widgets == [page_size |-> page_size, sig_both |-> sig_both, ascending |-> ascending]
DownloadOutcomes == {"rows", "error_dict", "error_empty"}

\* the first run of the page's script
OpenViewData ==
  /\ view.state = "closed"
  /\ \E ok \in BOOLEAN : ScriptRun(Widgets, "none", ok, "rows", TRUE)

ChangePageSize ==
  /\ view.state \notin {"closed", "stopped"}
  /\ \E size \in PageSizes \ {page_size}, ok \in BOOLEAN :
       ScriptRun([Widgets EXCEPT !.page_size = size], "none", ok, "rows", TRUE)

ChangeSignedFilter ==
  /\ view.state \notin {"closed", "stopped"}
  /\ \E sb \in {"All", "Yes", "No"} \ {sig_both}, ok \in BOOLEAN :
       ScriptRun([Widgets EXCEPT !.sig_both = sb], "none", ok, "rows", TRUE)

ChangeSortOrder ==
  /\ view.state \notin {"closed", "stopped"}
  /\ \E ok \in BOOLEAN :
       ScriptRun([Widgets EXCEPT !.ascending = ~ascending], "none", ok, "rows", TRUE)

\* the buttons are there to press when the last run rendered them
PreviousPressed ==
  /\ view.state = "ok" /\ page > 1
  /\ \E ok \in BOOLEAN, ok2 \in BOOLEAN : ScriptRun(Widgets, "Previous", ok, "rows", ok2)

NextPressed ==
  /\ view.state = "ok" /\ page < view.total_pages
  /\ \E ok \in BOOLEAN, ok2 \in BOOLEAN : ScriptRun(Widgets, "Next", ok, "rows", ok2)

DownloadPressed ==
  /\ view.state = "ok"
  /\ \E ok \in BOOLEAN, dl \in DownloadOutcomes :
       ScriptRun(Widgets, "Download", ok, dl, TRUE)

----------------------------------------------------------------------------
(* Specifications                                                          *)

\* the stores looked at hold up to MaxFullPages full pages of rows, of any
\* page size, give or take one row
MaxFullPages == 1
StoreSizes ==
  {n \in 0..(MaxFullPages * 100 + 1) :
     \E size \in PageSizes, k \in 0..MaxFullPages, d \in {-1, 0, 1} : n = k * size + d}

InitApp ==
  /\ file_type = "PDF"
  /\ uploaded_files = <<>>
  /\ session_state = <<>>
  /\ pass = NoPass
  /\ display = NoDisplay
  /\ save_result = NoSave

InitDecode ==
  /\ reply_object = PyDict(<<>>)
  /\ response = NoResponse
  /\ decoded = NotDecoded

InitView ==
  /\ page = 0
  /\ last_filter_state = <<>>
  /\ page_size = 10
  /\ sig_both = "All"
  /\ ascending = FALSE
  /\ view = NoView
  /\ download = NoDownload

\* the upload page, over an empty store
InitUpload ==
  /\ current_page = "upload"
  /\ supabase_client \in BOOLEAN
  /\ store_calls = {}
  /\ store_rows = 0
  /\ InitDecode
  /\ InitApp
  /\ InitView

\* the View Data page, over a store of one of these sizes
InitViewData ==
  /\ current_page = "view"
  /\ supabase_client \in BOOLEAN
  /\ store_calls = {}
  /\ store_rows \in StoreSizes
  /\ InitDecode
  /\ InitApp
  /\ InitView

NextApp ==
  \/ SelectFileType
  \/ UploadFile
  \/ RemoveFile
  \/ ProcessFilesPressed
  \/ SaveToDatabasePressed

NextView ==
  \/ OpenViewData
  \/ ChangePageSize
  \/ ChangeSignedFilter
  \/ ChangeSortOrder
  \/ PreviousPressed
  \/ NextPressed
  \/ DownloadPressed

\* one extraction, over every reply object
InitExtract ==
  /\ current_page = "upload"
  /\ supabase_client = FALSE
  /\ store_calls = {}
  /\ store_rows = 0
  /\ reply_object \in ReplyObjects
  /\ response = NoResponse
  /\ decoded = NotDecoded
  /\ InitApp
  /\ InitView

NextDecode ==
  \/ GenerateContent
  \/ Decode

\* The whole app: the operator goes from page to page.  Streamlit keeps
\* st.session_state across pages and drops the widgets and the output of
\* the page that is left.  What the uploaded files hold does not matter to
\* the store, so here the operator uploads readable work orders only.
UploadWorkOrder == UploadFrom({1})

\* the View Data page is picked and its script runs for the first time
GoToViewData ==
  /\ current_page = "upload"
  /\ current_page' = "view"
  /\ file_type' = "PDF"
  /\ uploaded_files' = <<>>
  /\ pass' = NoPass
  /\ display' = NoDisplay
  /\ save_result' = NoSave
  /\ view' = NoView
  /\ download' = NoDownload
  /\ UNCHANGED <<supabase_client, store_calls, decodeVars, session_state, store_rows,
                 page, last_filter_state, page_size, sig_both, ascending>>

\* the upload page is picked and its script runs, no button pressed
GoToUpload ==
  /\ current_page = "view"
  /\ current_page' = "upload"
  /\ page_size' = 10
  /\ sig_both' = "All"
  /\ ascending' = FALSE
  /\ view' = NoView
  /\ download' = NoDownload
  /\ display' = Display(session_state)
  /\ UNCHANGED <<supabase_client, store_calls, decodeVars, session_state, store_rows,
                 page, last_filter_state, file_type, uploaded_files, pass, save_result>>

\* the session starts on the upload page, the store empty or holding
\* eleven rows, two pages of ten
InitSession ==
  /\ current_page = "upload"
  /\ supabase_client \in BOOLEAN
  /\ store_calls = {}
  /\ store_rows \in {0, 11}
  /\ InitDecode
  /\ InitApp
  /\ InitView

NextSession ==
  \/ SelectFileType
  \/ UploadWorkOrder
  \/ RemoveFile
  \/ ProcessFilesPressed
  \/ SaveToDatabasePressed
  \/ GoToViewData
  \/ OpenViewData
  \/ ChangePageSize
  \/ ChangeSignedFilter
  \/ ChangeSortOrder
  \/ PreviousPressed
  \/ NextPressed
  \/ DownloadPressed
  \/ GoToUpload

SpecSession == InitSession /\ [][NextSession]_vars
SpecDecode == InitExtract /\ [][NextDecode]_vars
SpecApp == InitUpload /\ [][NextApp]_vars
SpecView == InitViewData /\ [][NextView]_vars

----------------------------------------------------------------------------
(* The claims of the specification, as properties of the model             *)

Range(seq) == {seq[i] : i \in 1..Len(seq)}
IndexOf(seq, x) == CHOOSE i \in 1..Len(seq) : seq[i] = x

\* C1: a reply that wraps the JSON object J in a json-tagged fence or in a
\* bare fence decodes to the same mapping as the unwrapped J
C1_FencedDecodesAsUnwrapped ==
  (decoded.done /\ response.style \in Styles) => decoded.val = reply_object

\* C2: every record appended to the batch has all nine schema keys and
\* filename
HasSchemaKeys(rec) ==
  /\ \A i \in 1..Len(SchemaKeys) : DictHas(rec, SchemaKeys[i])
  /\ DictHas(rec, "filename")
C2_EveryRecordHasSchemaKeys ==
  \A i \in 1..Len(pass.extracted_data) : HasSchemaKeys(pass.extracted_data[i])

\* the inputs of the upload at hand, <<file, page>>, and those of them
\* whose extraction yields no record
UploadInputs ==
  {<<i, k>> \in (1..Len(uploaded_files)) \X (1..MaxInputs + 1) :
     k <= Len(uploaded_files[i].pages)}
FailedInputs == {u \in UploadInputs : Extracted[uploaded_files[u[1]].pages[u[2]]] = None}
\* every file opens, every page rasterizes, every extraction gives a
\* mapping or nothing
UploadOfExtractableInputs ==
  /\ \A i \in 1..Len(uploaded_files) : uploaded_files[i].opens
  /\ \A u \in UploadInputs :
       /\ uploaded_files[u[1]].pages[u[2]] # 0
       /\ Extracted[uploaded_files[u[1]].pages[u[2]]].t \in {"dict", "None"}

\* C3: of a batch of N inputs (images or PDF pages) of which K fail
\* extraction, the pass leaves exactly N - K records and reports exactly K
\* failures, each naming the input that failed
C3_RecordsAndFailuresAddUp ==
  (pass.ran /\ UploadOfExtractableInputs) =>
    /\ Len(pass.extracted_data) = Cardinality(UploadInputs) - Cardinality(FailedInputs)
    /\ Len(pass.messages) = Cardinality(FailedInputs)
    /\ \A u \in FailedInputs :
         \E m \in 1..Len(pass.messages) :
           pass.messages[m].name \in
             {uploaded_files[u[1]].name, PageLabel(uploaded_files[u[1]].name, u[2])}

\* the filename of the records of the pass that stem from the file `name`
LabelsOf(name) ==
  LET labels == [j \in 1..Len(pass.extracted_data) |->
                   DictGet(pass.extracted_data[j], "filename").s]
  IN SelectSeq(labels, LAMBDA l : startswith(l, name \o " - Page "))

\* C4: a PDF of P pages gives at most P records, the record of page k is
\* labelled "<name> - Page <k>" (k from 1), the records come in page order,
\* and a failure on page j (extraction or rasterization) does not keep the
\* pages j+1..P from being attempted
C4_PagesLabelledInOrderAndAllAttempted ==
  (pass.ran /\ file_type = "PDF") =>
    \A i \in 1..Len(uploaded_files) :
      LET f == uploaded_files[i]
          P == Len(f.pages)
          labels == LabelsOf(f.name)
          all == [k \in 1..P |-> PageLabel(f.name, k)] IN
      f.opens =>
        /\ Len(labels) <= P
        /\ labels = SelectSeq(all, LAMBDA l : l \in Range(labels))
        /\ \A k \in 1..P : f.pages[k] # 0 => PageLabel(f.name, k) \in Range(pass.attempts)

\* C5: while get_supabase_client() yields nothing, no store operation is
\* attempted, neither by Save to Database nor by the View Data page
C5_NoStoreCallWithoutClient ==
  ~supabase_client => store_calls = {}
\* Save to Database was pressed on a displayed batch with no client
C5_SavePressedWithoutClient ==
  /\ ~supabase_client
  /\ current_page = "upload"
  /\ display.shown
  /\ save_result.shown = "not_configured"
  /\ store_calls = {}

\* C6: a failure of insert_work_orders, fetch_work_orders or
\* fetch_all_work_orders is always shown as the store's error, never as a
\* success, as "No data found" or as exported data
C6_StoreFailureShownAsError ==
  /\ save_result.store = "error" => save_result.shown = "error"
  /\ view.fetch = "error" => view.state = "error"
  /\ download.store = "error" => download.shown = "error"

\* C7: total_pages is ceil(count / page_size) with a floor of 1 for the
\* page sizes 10, 20, 50, 100, and a page beyond total_pages shows zero
\* rows and no error
C7_TotalPagesIsCeilingAndBeyondIsEmpty ==
  view.state = "ok" =>
    LET count == MatchCount(store_rows, sig_both)
        tp == view.total_pages IN
    /\ page_size \in {10, 20, 50, 100}
    /\ view.total_count = count
    /\ tp >= 1
    /\ count = 0 => tp = 1
    /\ count > 0 => (tp - 1) * page_size < count /\ count <= tp * page_size
    /\ view.page > tp => view.rows = 0 /\ view.fetch = "ok"
\* a page beyond the last one of a store that has rows was fetched
C7_PageBeyondLastFetched ==
  /\ view.state = "ok"
  /\ view.total_count > 0
  /\ view.total_count = view.total_pages * page_size
  /\ view.page > view.total_pages
  /\ view.rows = 0

\* the field order of the schema of the specification, filename last
SchemaOrder ==
  <<"work_order_number", "job_number", "description", "date", "hours",
    "total_amount_due", "signed_by_both", "customer_sign", "wcdp_sign", "filename">>
\* the order the table is found to have
DisplayOrder ==
  <<"work_order_number", "job_number", "date", "hours", "total_amount_due",
    "signed_by_both", "customer_sign", "wcdp_sign", "description", "filename">>
\* cols is a permutation of dfcols: the columns of `order` that are there,
\* in that order, then the others in the order they have in dfcols
OrderedBy(order, dfcols, cols) ==
  /\ Len(cols) = Len(dfcols)
  /\ Range(cols) = Range(dfcols)
  /\ \A i \in 1..Len(cols), j \in 1..Len(cols) :
       i < j =>
         LET a == cols[i]
             b == cols[j] IN
         /\ a # b
         /\ (a \in Range(order) /\ b \in Range(order)) => IndexOf(order, a) < IndexOf(order, b)
         /\ a \notin Range(order) =>
              /\ b \notin Range(order)
              /\ IndexOf(dfcols, a) < IndexOf(dfcols, b)

\* C8 (as stated): the columns shown and exported follow the field order of
\* the schema, filename last, restricted to the columns present, the
\* unrecognized columns after them in their original order
C8_ColumnsInSchemaOrder ==
  display.shown => OrderedBy(SchemaOrder, display.df_columns, display.columns)
\* C8 (amended): the same, the order being work_order_number, job_number,
\* date, hours, total_amount_due, signed_by_both, customer_sign, wcdp_sign,
\* description, filename
C8_ColumnsInDisplayOrder ==
  display.shown => OrderedBy(DisplayOrder, display.df_columns, display.columns)
\* a table with description, a recognized column after it and an
\* unrecognized column
C8_TableWithDescriptionAndUnrecognized ==
  /\ display.shown
  /\ {"description", "date", "filename", "notes"} \subseteq Range(display.columns)

\* C9: the batch of the session is replaced wholesale by the most recent
\* submission, also when that submission produced zero records
C9_BatchIsMostRecentSubmission ==
  pass.ran => session_state = pass.extracted_data

\* C10: the page number a fetch of the View Data page uses satisfies
\* 1 <= page <= total_pages, whatever Next, Previous, filter, sort and
\* rows-per-page changes came before
C10_PageWithinTotalPages ==
  view.state = "ok" => (1 <= view.page /\ view.page <= view.total_pages)


====
